---- MODULE Spec2Model ----
(***************************************************************************)
(* SoftTeacher (ssod/models/soft_teacher.py): the contrastive feature      *)
(* memory queue, the two-phase collective gather that feeds it, the        *)
(* contrastive losses that call it, the training orchestrator, the         *)
(* checkpoint migration and the teacher's threshold test.                  *)
(*                                                                         *)
(* A feature row is a record [o, i, n]: o is the worker that produced it   *)
(* (0: the constructor's random rows and zero padding), i its index in     *)
(* the producer's local batch, n its L2 norm (0 zero row, 1 unit row, 2    *)
(* any other norm).  A tensor of features is [rows, dim].                  *)
(***************************************************************************)
EXTENDS Integers, Sequences, FiniteSets, TLC

VARIABLES world, loader, memory_k, projector_dim, queue_vector, queue_ptr, wk, al, lk,
          ld, ti, sel

vars == <<world, loader, memory_k, projector_dim, queue_vector, queue_ptr, wk, al, lk,
          ld, ti, sel>>

\* ---------------------------------------------------------------- bounds
NWorkers == 2
KStep == 3
MaxImgs == 2
MaxGt == 1
MaxPos == 1
MaxLabel == 2
KQueue == 5
KGather == 2
MaxBatch == 5
MaxFiles == 3
MaxBoxes == 2
MaxMiss == 2
MaxKeyLen == 2
MaxKeys == 2
MaxVal == 2
MaxThr == 3
MaxSelGt == 2
MaxNeg == 1

\* ------------------------------------------------------- program constants
EmptyFeatDim == 128
OtherProjectorDim == 64
Ctr2Num == 2
ItemViews == 3

Roles ==
    {"sup", "unsup_teacher", "unsup_student", "ctr_anchor_sup", "ctr_ctr_sup",
     "ctr_anchor_unsup", "ctr_ctr_unsup"}

SupReads == {"ctr_anchor_sup", "ctr_ctr_sup"}

UnsupReads == {"unsup_teacher", "ctr_anchor_unsup", "ctr_ctr_unsup"}

\* role-group sets a sampler that keeps every pair of views together can emit
PairedLoader ==
    { Roles,
      {"sup"} \cup SupReads,
      {"unsup_student"} \cup UnsupReads }

\* ---------------------------------------------------------------- helpers
Min(a, b) == IF a < b THEN a ELSE b

Max(a, b) == IF a > b THEN a ELSE b

RECURSIVE SumSeq(_)
SumSeq(s) == IF s = <<>> THEN 0 ELSE Head(s) + SumSeq(Tail(s))

RECURSIVE MaxSeq(_)
MaxSeq(s) == IF s = <<>> THEN 0 ELSE Max(Head(s), MaxSeq(Tail(s)))

RECURSIVE Flatten(_)
Flatten(ss) == IF ss = <<>> THEN <<>> ELSE Head(ss) \o Flatten(Tail(ss))

\* python s[a:b] on a sequence, 0-based, b exclusive, both clamped
Slice(s, a, b) == SubSeq(s, Min(a, Len(s)) + 1, Min(b, Len(s)))

\* ------------------------------------------------------------ feature rows
Row(o, i, n) == [o |-> o, i |-> i, n |-> n]

ZeroRow == Row(0, 0, 0)

Zeros(n) == [k \in 1..n |-> ZeroRow]

\* a faulty variant of F.normalize: the rows are left as the projector produced them
NormalizeSkip(r) == r

\* F.normalize(x, dim=1): x / max(||x||, eps)
Normalize(r) == IF r.n = 0 THEN r ELSE [r EXCEPT !.n = 1]

NormalizeRows(rs) == [k \in 1..Len(rs) |-> Normalize(rs[k])]

\* torch.randn(memory_k, projector_dim) then F.normalize: rows of any non-zero norm
InitQueue(K) == NormalizeRows([k \in 1..K |-> Row(0, k, 2)])

Tensor(rows, dim) == [rows |-> rows, dim |-> dim]

NoFeatures == Tensor(<<>>, 0)

\* torch.zeros([0, 128])
EmptyFeatures == Tensor(<<>>, EmptyFeatDim)

\* ------------------------------------------------------ concat_all_gather
\* lines 474-477: pad the local features with zero rows up to the largest batch
PadFeatures(f, sizes) ==
    Tensor(f.rows \o Zeros(MaxSeq(sizes) - Len(f.rows)), f.dim)

\* lines 485-487: cut every gathered chunk back to its reported size, concatenate
TruncateCat(sizes, gathered) ==
    Tensor(Flatten([v \in 1..Len(gathered) |-> Slice(gathered[v].rows, 0, sizes[v])]),
           gathered[1].dim)

\* ---------------------------------------------------- _dequeue_and_enqueue
\* q[a:b, :] = src on a queue of K rows: the shapes must agree (one source row
\* is broadcast), else torch raises and q is left as it was
AssignSlice(q, a, b, src) ==
    LET lo == Min(a, Len(q))
        hi == Min(b, Len(q))
        m == IF hi > lo THEN hi - lo ELSE 0
    IN  IF m = 0
        THEN [q |-> q, err |-> Len(src) > 1]
        ELSE IF Len(src) = m
        THEN [q |-> [k \in 1..Len(q) |->
                        IF k > lo /\ k <= hi THEN src[k - lo] ELSE q[k]],
              err |-> FALSE]
        ELSE IF Len(src) = 1
        THEN [q |-> [k \in 1..Len(q) |->
                        IF k > lo /\ k <= hi THEN src[1] ELSE q[k]],
              err |-> FALSE]
        ELSE [q |-> q, err |-> TRUE]

\* a faulty variant of the write: the batch is pushed in front and the buffer cut to K rows
QueueWriteShift(q, ptr, K, f) ==
    [q |-> SubSeq(f \o q, 1, K), ptr |-> (ptr + Len(f)) % K, err |-> FALSE]

\* a faulty variant of the wrapped write: the head segment is taken from the start of the batch
QueueWriteHeadFromStart(q, ptr, K, f) ==
    LET B == Len(f) IN
    IF ptr + B >= K
    THEN LET redundant == ptr + B - K
             w1 == AssignSlice(q, ptr, K, Slice(f, 0, B - redundant))
             w2 == AssignSlice(w1.q, 0, redundant, Slice(f, 0, redundant))
         IN  IF w1.err THEN [q |-> q, ptr |-> ptr, err |-> TRUE]
             ELSE IF w2.err THEN [q |-> w1.q, ptr |-> ptr, err |-> TRUE]
             ELSE [q |-> w2.q, ptr |-> (ptr + B) % K, err |-> FALSE]
    ELSE LET w1 == AssignSlice(q, ptr, ptr + B, f)
         IN  IF w1.err THEN [q |-> q, ptr |-> ptr, err |-> TRUE]
             ELSE [q |-> w1.q, ptr |-> (ptr + B) % K, err |-> FALSE]

\* lines 504-515: replace the keys at ptr, wrapping, and move the pointer
QueueWrite(q, ptr, K, f) ==
    LET B == Len(f) IN
    IF ptr + B >= K
    THEN LET redundant == ptr + B - K
             w1 == AssignSlice(q, ptr, K, Slice(f, 0, B - redundant))
             w2 == AssignSlice(w1.q, 0, redundant, Slice(f, B - redundant, B))
         IN  IF w1.err THEN [q |-> q, ptr |-> ptr, err |-> TRUE]
             ELSE IF w2.err THEN [q |-> w1.q, ptr |-> ptr, err |-> TRUE]
             ELSE [q |-> w2.q, ptr |-> (ptr + B) % K, err |-> FALSE]
    ELSE LET w1 == AssignSlice(q, ptr, ptr + B, f)
         IN  IF w1.err THEN [q |-> q, ptr |-> ptr, err |-> TRUE]
             ELSE [q |-> w1.q, ptr |-> (ptr + B) % K, err |-> FALSE]

\* ------------------------------------------------------------ worker state
\* a worker's position in forward_train and the locals of the calls it is in
\* the locals of the orchestrator's alignment code and of the exemplar lookup
NoData == [img |-> <<>>, img_metas |-> <<>>, gt_bboxes |-> <<>>, gt_labels |-> <<>>]

AlignIdle ==
    [pc |-> "idle", n |-> 0, src |-> "none", tnames |-> <<>>, snames |-> <<>>,
     tidx |-> <<>>, teacher_call |-> [img |-> <<>>, img_metas |-> <<>>,
                                      proposals |-> <<>>, has_proposals |-> FALSE],
     anchor |-> NoData, ctr |-> NoData]

LookupIdle ==
    [pc |-> "idle", labels |-> <<>>, k |-> 0, item |-> [kind |-> "none"],
     misses |-> 0, used |-> <<>>, err |-> "none"]

\* a state dict: a function from parameter names to tensors
EmptyDict == [k \in {} |-> 0]

\* the locals of _load_from_state_dict, of extract_teacher_info and of the
\* selection loop of ctr_loss_1
LoadIdle ==
    [pc |-> "idle", loads |-> 0, orig |-> EmptyDict, before |-> EmptyDict,
     state_dict |-> EmptyDict, once |-> EmptyDict]

\* float, int, list: python types of a configured value; none: not configured
NoThr == [type |-> "none", val |-> 0]

TeacherIdle ==
    [pc |-> "idle", thr_cfg |-> NoThr, n |-> 0, has_proposals |-> FALSE,
     thr |-> NoThr, filter_calls |-> <<>>, returned |-> FALSE, err |-> "none"]

SelectIdle ==
    [pc |-> "idle", n |-> 0, batch |-> 0, i |-> 0, anchor |-> <<>>, ctr |-> <<>>,
     pos_gt_map_anchor |-> <<>>, pos_gt_map_ctr |-> <<>>, j |-> 0,
     selected |-> <<>>, err |-> "none", line |-> 0]

IdleLocal ==
    [pc |-> "idle", groups |-> {}, branch |-> "none", ret |-> "none",
     gts |-> <<>>, features |-> NoFeatures, sizes |-> <<>>, gathered |-> <<>>,
     calls |-> 0, gathers |-> 0, ctr1 |-> "none", ctr2 |-> "none", err |-> "none",
     line |-> 0, i |-> 0, npos |-> 0]

Workers == 1..world

\* an exception e raised at source line n ends the worker's forward_train
Raise(l, e, n) == [l EXCEPT !.pc = "raised", !.err = e, !.line = n]

\* a call of _dequeue_and_enqueue(features), to return to the caller ret
CallEnqueue(l, f, ret) ==
    [l EXCEPT !.pc = "gather_sizes", !.features = f, !.ret = ret, !.calls = @ + 1]

Init ==
    /\ world = NWorkers
    /\ loader = PairedLoader
    /\ memory_k = KStep
    /\ projector_dim \in {EmptyFeatDim, OtherProjectorDim}
    /\ queue_vector = [w \in 1..world |-> InitQueue(memory_k)]
    /\ queue_ptr = [w \in 1..world |-> 0]
    /\ wk = [w \in 1..world |-> IdleLocal]
    /\ al = AlignIdle
    /\ lk = LookupIdle
    /\ ld = LoadIdle
    /\ ti = TeacherIdle
    /\ sel = SelectIdle

Config == <<world, loader, memory_k, projector_dim, al, lk, ld, ti, sel>>

Queue == <<queue_vector, queue_ptr>>

\* ------------------------------------------------------------ forward_train
\* lines 44-53: split the batch by tag into the role groups present
ForwardTrain(w) ==
    /\ wk[w].pc = "idle"
    /\ \E g \in loader :
          wk' = [wk EXCEPT ![w] = [IdleLocal EXCEPT !.pc = "sup_branch", !.groups = g]]
    /\ UNCHANGED <<Config, Queue>>

\* lines 58-64: the supervised branch reads both supervised contrastive groups
SupBranchStep(l) ==
    IF "sup" \notin l.groups THEN [l EXCEPT !.pc = "unsup_branch"]
    ELSE IF ~(SupReads \subseteq l.groups) THEN Raise(l, "KeyError", 64)
    ELSE [l EXCEPT !.pc = "ctr_loss", !.branch = "sup", !.calls = 0]

SupBranch(w) ==
    /\ wk[w].pc = "sup_branch"
    /\ wk' = [wk EXCEPT ![w] = SupBranchStep(wk[w])]
    /\ UNCHANGED <<Config, Queue>>

\* lines 71-74, 83-103, 111-158: the unsupervised branch reads the teacher group
\* and both unsupervised contrastive groups, then calls ctr_loss
UnsupBranchStep(l) ==
    IF "unsup_student" \notin l.groups THEN [l EXCEPT !.pc = "done"]
    ELSE IF ~(UnsupReads \subseteq l.groups) THEN Raise(l, "KeyError", 74)
    ELSE [l EXCEPT !.pc = "ctr_loss", !.branch = "unsup", !.calls = 0,
                   !.ctr1 = "none", !.ctr2 = "none"]

UnsupBranch(w) ==
    /\ wk[w].pc = "unsup_branch"
    /\ wk' = [wk EXCEPT ![w] = UnsupBranchStep(wk[w])]
    /\ UNCHANGED <<Config, Queue>>

\* ----------------------------------------------------------------- ctr_loss
Perms(n) == {p \in [1..n -> 1..n] : \A a, b \in 1..n : p[a] = p[b] => a = b}

\* the indices i with gt_bboxes[i].size(0) != 0, in order (valid_ind, lines 592-601)
RECURSIVE ValidInd(_, _)
ValidInd(ag, i) ==
    IF i > Len(ag) THEN <<>>
    ELSE (IF ag[i] # 0 THEN <<i>> ELSE <<>>) \o ValidInd(ag, i + 1)

\* a faulty variant of the zero-ground-truth path: it returns without touching the queue
ZeroGtPathNoEnqueue(l) ==
    [l EXCEPT !.ctr1 = "zero", !.ctr2 = "zero", !.pc = "ctr_ret"]

\* lines 583-587: zero losses and one enqueue of an explicitly empty feature set
ZeroGtPath(l) ==
    CallEnqueue([l EXCEPT !.ctr1 = "zero", !.ctr2 = "zero"], EmptyFeatures, "ctr_loss")

\* lines 574-610 on anchor counts ag and counterpart counts cg
CtrLossStep(l, ag, cg) ==
    IF SumSeq(ag) = 0 THEN ZeroGtPath(l)
    ELSE IF \E i \in 1..Len(ag) : ag[i] # cg[i] THEN Raise(l, "AssertionError", 593)
    ELSE [l EXCEPT !.pc = "ctr_loss_1", !.i = 1, !.npos = 0,
                   !.gts = [k \in 1..Len(ValidInd(ag, 1)) |-> ag[ValidInd(ag, 1)[k]]]]

\* the ground-truth counts of the two views: the supervised groups arrive in
\* independent orders (line 64), the unsupervised ones are both written from
\* the counterpart's detections (lines 153-156)
CtrLoss(w) ==
    /\ wk[w].pc = "ctr_loss"
    /\ \E nI \in 1..MaxImgs : \E ag \in [1..nI -> 0..MaxGt] : \E p \in Perms(nI) :
          LET cg == IF wk[w].branch = "sup" THEN [i \in 1..nI |-> ag[p[i]]] ELSE ag
          IN  wk' = [wk EXCEPT ![w] = CtrLossStep(wk[w], ag, cg)]
    /\ UNCHANGED <<Config, Queue>>

\* --------------------------------------------------------------- ctr_loss_1
\* lines 665-668: the projector's rows for n selected regions (rows of any
\* non-zero norm), normalized
TeacherVec(w, n) == NormalizeRows([k \in 1..n |-> Row(w, k, 2)])

\* lines 634-642, one iteration: image i of the valid images has pa anchor
\* positives and pc counterpart positives; both asserts require some
CtrLoss1LoopStep(l, pa, pc) ==
    IF pa = 0 THEN Raise(l, "AssertionError", 635)
    ELSE IF pc = 0 THEN Raise(l, "AssertionError", 636)
    ELSE [l EXCEPT !.i = @ + 1, !.npos = @ + pa,
                   !.pc = IF l.i = Len(l.gts) THEN "ctr_select" ELSE "ctr_loss_1"]

CtrLoss1Loop(w) ==
    /\ wk[w].pc = "ctr_loss_1"
    /\ \E pa \in 0..MaxPos : \E pc \in 0..MaxPos :
          wk' = [wk EXCEPT ![w] = CtrLoss1LoopStep(wk[w], pa, pc)]
    /\ UNCHANGED <<Config, Queue>>

\* lines 644-679 for npos anchor positives; unmatched: some anchor positive
\* has no counterpart positive with its map value, so torch.randint(0, 0) raises
CtrLoss1Step(l, w, unmatched, dim) ==
    IF unmatched THEN Raise(l, "RuntimeError", 652)
    ELSE IF l.npos = 0
    THEN CallEnqueue([l EXCEPT !.ctr1 = "zero", !.i = 0], EmptyFeatures, "ctr_loss_1")
    ELSE CallEnqueue([l EXCEPT !.ctr1 = "value", !.i = 0, !.npos = 0],
                     Tensor(TeacherVec(w, l.npos), dim), "ctr_loss_1")

CtrLoss1(w) ==
    /\ wk[w].pc = "ctr_select"
    /\ \E unmatched \in BOOLEAN :
          wk' = [wk EXCEPT ![w] = CtrLoss1Step(wk[w], w, unmatched, projector_dim)]
    /\ UNCHANGED <<Config, Queue>>

\* ------------------------------------------------------ concat_all_gather
AllAt(p) == \A v \in Workers : wk[v].pc = p

\* line 470: the collective exchange of the local batch sizes; it completes
\* when every worker of the group has entered it
AllGatherSizes ==
    /\ AllAt("gather_sizes")
    /\ wk' = [v \in Workers |->
                 [wk[v] EXCEPT !.pc = "pad",
                               !.sizes = [u \in Workers |-> Len(wk[u].features.rows)],
                               !.gathers = @ + 1]]
    /\ UNCHANGED <<Config, Queue>>

\* lines 472-477
Pad(w) ==
    /\ wk[w].pc = "pad"
    /\ wk' = [wk EXCEPT ![w] = [wk[w] EXCEPT !.pc = "gather_feats",
                                            !.features = PadFeatures(@, wk[w].sizes)]]
    /\ UNCHANGED <<Config, Queue>>

\* what worker v holds of worker u's chunk when the chunks do not all have v's
\* width: its own chunk, and rows of no defined content for the others
Garbled(v, u) ==
    IF u = v THEN wk[v].features
    ELSE Tensor([k \in 1..Len(wk[u].features.rows) |-> Row(u, k, 2)], wk[v].features.dim)

\* a faulty variant of the exchange: no chunk travels, every worker keeps its own
AllGatherFeaturesOwnOnly ==
    /\ AllAt("gather_feats")
    /\ wk' = [v \in Workers |->
                 [wk[v] EXCEPT !.pc = "enqueue",
                               !.gathered = [u \in Workers |-> wk[v].features],
                               !.gathers = @ + 1]]
    /\ UNCHANGED <<Config, Queue>>

\* line 483: the collective exchange of the padded features.  Every worker
\* passes buffers of its own width; with equal widths each receives all chunks.
\* With unequal widths the collective's behaviour is undefined: the backend
\* rejects the call on every worker, or completes with garbled foreign chunks.
AllGatherFeatures ==
    /\ AllAt("gather_feats")
    /\ IF \A u, v \in Workers : wk[u].features.dim = wk[v].features.dim
       THEN wk' = [v \in Workers |->
                      [wk[v] EXCEPT !.pc = "enqueue",
                                    !.gathered = [u \in Workers |-> wk[u].features],
                                    !.gathers = @ + 1]]
       ELSE \/ wk' = [v \in Workers |->
                         Raise([wk[v] EXCEPT !.gathers = @ + 1], "RuntimeError", 483)]
            \/ wk' = [v \in Workers |->
                         [wk[v] EXCEPT !.pc = "enqueue",
                                       !.gathered = [u \in Workers |-> Garbled(v, u)],
                                       !.gathers = @ + 1]]
    /\ UNCHANGED <<Config, Queue>>

\* ---------------------------------------------------- _dequeue_and_enqueue
\* lines 485-515 on worker w: merge, return on an empty merge, check the
\* width, write at the cursor
DequeueAndEnqueue(w) ==
    /\ wk[w].pc = "enqueue"
    /\ LET merged == TruncateCat(wk[w].sizes, wk[w].gathered)
           res == QueueWrite(queue_vector[w], queue_ptr[w], memory_k, merged.rows)
           l == [wk[w] EXCEPT !.features = merged, !.gathered = <<>>]
       IN  IF Len(merged.rows) = 0
           THEN /\ wk' = [wk EXCEPT ![w] = [l EXCEPT !.pc = "enq_done"]]
                /\ UNCHANGED Queue
           ELSE IF merged.dim # projector_dim
           THEN /\ wk' = [wk EXCEPT ![w] = Raise(l, "AssertionError", 502)]
                /\ UNCHANGED Queue
           ELSE /\ queue_vector' = [queue_vector EXCEPT ![w] = res.q]
                /\ queue_ptr' = [queue_ptr EXCEPT ![w] = res.ptr]
                /\ wk' = [wk EXCEPT ![w] =
                             IF res.err THEN Raise(l, "RuntimeError", 510)
                             ELSE [l EXCEPT !.pc = "enq_done"]]
    /\ UNCHANGED Config

\* the return of _dequeue_and_enqueue to line 587 (ctr_loss), to line 664 or
\* to line 679 (ctr_loss_1, which returns to line 612 of ctr_loss)
EnqueueReturn(w) ==
    /\ wk[w].pc = "enq_done"
    /\ wk' = [wk EXCEPT ![w] =
                 IF wk[w].ret = "caller" THEN IdleLocal
                 ELSE [wk[w] EXCEPT !.pc = IF wk[w].ret = "ctr_loss" THEN "ctr_ret"
                                           ELSE "ctr_loss_2",
                                    !.features = NoFeatures, !.sizes = <<>>,
                                    !.ret = "none"]]
    /\ UNCHANGED <<Config, Queue>>

\* --------------------------------------------------------------- ctr_loss_2
Labels == 1..MaxLabel

Item(S) == [kind |-> "dict", gt_labels |-> S]

\* get_same_label_item returns a list of ItemViews views of one labeled item
Responses == {[kind |-> "list", views |-> [k \in 1..ItemViews |-> Item(S)]] : S \in SUBSET Labels}

\* line 707: same_label_item[-1]
LastView(r) == r.views[Len(r.views)]

\* line 708 evaluated on x: x['gt_labels'] on a list raises TypeError
WhileCond(x, label) ==
    IF x.kind = "list" THEN "TypeError"
    ELSE IF label \notin x.gt_labels THEN "loop" ELSE "exit"

\* lines 705-709 when the first answer is r1 and the next one r2
LookupOutcome(label, r1, r2) ==
    IF WhileCond(LastView(r1), label) = "exit" THEN "ok" ELSE WhileCond(r2, label)

\* lines 689-692, 699: at most ctr2_num boxes per image, all of them labeled
NumLabels(gts) == SumSeq([i \in 1..Len(gts) |-> Min(gts[i], Ctr2Num)])

\* lines 683-727: no call of _dequeue_and_enqueue
CtrLoss2Step(l, outcomes) ==
    IF \E k \in 1..Len(outcomes) : outcomes[k] # "ok" THEN Raise(l, "TypeError", 708)
    ELSE [l EXCEPT !.ctr2 = "value", !.pc = "ctr_ret", !.gts = <<>>]

CtrLoss2(w) ==
    /\ wk[w].pc = "ctr_loss_2"
    /\ \E rs \in [1..NumLabels(wk[w].gts) -> {r \in Responses : r.views[1].gt_labels \subseteq {1}}] :
          wk' = [wk EXCEPT ![w] =
                    CtrLoss2Step(wk[w],
                                 [k \in 1..Len(rs) |-> LookupOutcome(1, rs[k], rs[k])])]
    /\ UNCHANGED <<Config, Queue>>

\* the return of ctr_loss: lines 65-70 after the supervised call, lines
\* 104-109 and 76-81 after the unsupervised one
CtrLossReturn(w) ==
    /\ wk[w].pc = "ctr_ret"
    /\ wk' = [wk EXCEPT ![w] =
                 [wk[w] EXCEPT !.pc = IF wk[w].branch = "sup" THEN "unsup_branch"
                                      ELSE "done"]]
    /\ UNCHANGED <<Config, Queue>>

\* the training loop: when every worker has returned from forward_train the
\* gradient synchronisation ends the step and each takes its next batch
StepEnd ==
    /\ AllAt("done")
    /\ wk' = [v \in Workers |-> IdleLocal]
    /\ UNCHANGED <<Config, Queue>>

Next ==
    \/ \E w \in Workers : ForwardTrain(w)
    \/ \E w \in Workers : SupBranch(w)
    \/ \E w \in Workers : UnsupBranch(w)
    \/ \E w \in Workers : CtrLoss(w)
    \/ \E w \in Workers : CtrLoss1Loop(w)
    \/ \E w \in Workers : CtrLoss1(w)
    \/ AllGatherSizes
    \/ \E w \in Workers : Pad(w)
    \/ AllGatherFeatures
    \/ \E w \in Workers : DequeueAndEnqueue(w)
    \/ \E w \in Workers : EnqueueReturn(w)
    \/ \E w \in Workers : CtrLoss2(w)
    \/ \E w \in Workers : CtrLossReturn(w)
    \/ StepEnd

Spec == Init /\ [][Next]_vars

\* --------------------------------------------- one worker, any batch content
\* a single process whose batch may hold any subset of the role groups
InitForward ==
    /\ world = 1
    /\ loader = SUBSET Roles
    /\ memory_k = KStep
    /\ projector_dim \in {EmptyFeatDim, OtherProjectorDim}
    /\ queue_vector = [w \in 1..world |-> InitQueue(memory_k)]
    /\ queue_ptr = [w \in 1..world |-> 0]
    /\ wk = [w \in 1..world |-> IdleLocal]
    /\ al = AlignIdle
    /\ lk = LookupIdle
    /\ ld = LoadIdle
    /\ ti = TeacherIdle
    /\ sel = SelectIdle

SpecForward == InitForward /\ [][Next]_vars

\* a single process whose batches keep every pair of views together
InitSingle ==
    /\ world = 1
    /\ loader = PairedLoader
    /\ memory_k = KStep
    /\ projector_dim \in {EmptyFeatDim, OtherProjectorDim}
    /\ queue_vector = [w \in 1..world |-> InitQueue(memory_k)]
    /\ queue_ptr = [w \in 1..world |-> 0]
    /\ wk = [w \in 1..world |-> IdleLocal]
    /\ al = AlignIdle
    /\ lk = LookupIdle
    /\ ld = LoadIdle
    /\ ti = TeacherIdle
    /\ sel = SelectIdle

SpecSingle == InitSingle /\ [][Next]_vars

\* ------------------------------------------ the queue under direct enqueues
\* a single process that calls _dequeue_and_enqueue with batches of normalized rows
InitQueueOnly ==
    /\ world = 1
    /\ loader = {}
    /\ memory_k = KQueue
    /\ projector_dim \in {EmptyFeatDim, OtherProjectorDim}
    /\ queue_vector = [w \in 1..world |-> InitQueue(memory_k)]
    /\ queue_ptr = [w \in 1..world |-> 0]
    /\ wk = [w \in 1..world |-> IdleLocal]
    /\ al = AlignIdle
    /\ lk = LookupIdle
    /\ ld = LoadIdle
    /\ ti = TeacherIdle
    /\ sel = SelectIdle

CallDequeueAndEnqueue(w) ==
    /\ wk[w].pc = "idle"
    /\ \E B \in 0..MaxBatch :
          wk' = [wk EXCEPT ![w] =
                    CallEnqueue(IdleLocal,
                                Tensor(NormalizeRows([k \in 1..B |-> Row(w, k, 2)]), projector_dim),
                                "caller")]
    /\ UNCHANGED <<Config, Queue>>

NextQueue ==
    \/ \E w \in Workers : CallDequeueAndEnqueue(w)
    \/ AllGatherSizes
    \/ \E w \in Workers : Pad(w)
    \/ AllGatherFeatures
    \/ \E w \in Workers : DequeueAndEnqueue(w)
    \/ \E w \in Workers : EnqueueReturn(w)

SpecQueue == InitQueueOnly /\ [][NextQueue]_vars

\* ------------------------------- the queues of a group under the losses' enqueues
\* the workers of a group, each calling _dequeue_and_enqueue with what the
\* contrastive losses pass: teacher_vec of n regions (line 677) or
\* torch.zeros([0, 128]) (lines 586, 663)
InitGather ==
    /\ world = NWorkers
    /\ loader = {}
    /\ memory_k = KGather
    /\ projector_dim \in {EmptyFeatDim, OtherProjectorDim}
    /\ queue_vector = [w \in 1..world |-> InitQueue(memory_k)]
    /\ queue_ptr = [w \in 1..world |-> 0]
    /\ wk = [w \in 1..world |-> IdleLocal]
    /\ al = AlignIdle
    /\ lk = LookupIdle
    /\ ld = LoadIdle
    /\ ti = TeacherIdle
    /\ sel = SelectIdle

CtrLossEnqueue(w) ==
    /\ wk[w].pc = "idle"
    /\ \E n \in 0..MaxPos :
          wk' = [wk EXCEPT ![w] =
                    CallEnqueue(IdleLocal,
                                IF n = 0 THEN EmptyFeatures
                                ELSE Tensor(TeacherVec(w, n), projector_dim),
                                "caller")]
    /\ UNCHANGED <<Config, Queue>>

NextGather ==
    \/ \E w \in Workers : CtrLossEnqueue(w)
    \/ AllGatherSizes
    \/ \E w \in Workers : Pad(w)
    \/ AllGatherFeatures
    \/ \E w \in Workers : DequeueAndEnqueue(w)
    \/ \E w \in Workers : EnqueueReturn(w)

SpecGather == InitGather /\ [][NextGather]_vars

\* ------------------------------------------- alignment of the role batches
\* every element of a role batch (image, meta, proposals, boxes, labels) is
\* identified by the view it was made for and the file it belongs to; file 0
\* marks boxes that belong to no image
Elem(view, file) == [view |-> view, file |-> file]

\* the role group of one view, its images in the order `order` of file names
RoleBatch(view, order) ==
    [img |-> [i \in 1..Len(order) |-> Elem(view, order[i])],
     img_metas |-> [i \in 1..Len(order) |-> Elem(view, order[i])],
     gt_bboxes |-> [i \in 1..Len(order) |-> Elem(view, order[i])],
     gt_labels |-> [i \in 1..Len(order) |-> Elem(view, order[i])]]

Filenames(metas) == [i \in 1..Len(metas) |-> metas[i].file]

\* list.index: the first position of name (positions counted from 1)
Index(names, name) ==
    CHOOSE i \in 1..Len(names) :
        names[i] = name /\ \A j \in 1..(i - 1) : names[j] # name

\* a faulty variant of the re-alignment: the two batches are paired by position
TidxPositional(tnames, snames) == [i \in 1..Len(snames) |-> i]

\* lines 85-87 and 112-114: tidx = [tnames.index(name) for name in snames]
Tidx(tnames, snames) == [i \in 1..Len(snames) |-> Index(tnames, snames[i])]

Take(xs, idx) == [i \in 1..Len(idx) |-> xs[idx[i]]]

\* lines 141-149: boxes of image f in the counterpart's frame, moved by the
\* transform from meta a's frame to meta b's frame, are boxes of f in the
\* anchor's frame only when both metas are metas of f
TransformBox(box, a, b) ==
    IF box.file = a.file /\ box.file = b.file THEN Elem(b.view, box.file)
    ELSE Elem(b.view, 0)

AlignDispatch ==
    /\ al.pc = "idle"
    /\ \E n \in 1..MaxFiles : al' = [AlignIdle EXCEPT !.pc = "sup", !.n = n]
    /\ UNCHANGED <<world, loader, memory_k, projector_dim, lk, Queue, wk, ld, ti, sel>>

\* line 64: ctr_loss(data_groups["ctr_anchor_sup"], data_groups["ctr_ctr_sup"])
SupCtrLoss ==
    /\ al.pc = "sup"
    /\ \E oa, oc \in Perms(al.n) :
          al' = [al EXCEPT !.pc = "sup_called", !.src = "sup",
                           !.anchor = RoleBatch("anchor", oa),
                           !.ctr = RoleBatch("ctr", oc)]
    /\ UNCHANGED <<world, loader, memory_k, projector_dim, lk, Queue, wk, ld, ti, sel>>

\* lines 65-70: ctr_loss has returned to the supervised branch
SupCtrLossReturn ==
    /\ al.pc = "sup_called"
    /\ al' = [AlignIdle EXCEPT !.pc = "unsup", !.n = al.n]
    /\ UNCHANGED <<world, loader, memory_k, projector_dim, lk, Queue, wk, ld, ti, sel>>

\* lines 83-98: the arguments foward_unsup_train passes to extract_teacher_info
FowardUnsupTrain ==
    /\ al.pc = "unsup"
    /\ \E ot, os \in Perms(al.n) : \E hp \in BOOLEAN :
          LET teacher_data == RoleBatch("teacher", ot)
              student_data == RoleBatch("student", os)
              tnames == Filenames(teacher_data.img_metas)
              snames == Filenames(student_data.img_metas)
              tidx == Tidx(tnames, snames)
              proposals == [i \in 1..Len(ot) |-> Elem("teacher", ot[i])]
          IN  al' = [al EXCEPT !.pc = "teacher_called",
                               !.tnames = tnames, !.snames = snames, !.tidx = tidx,
                               !.teacher_call =
                                   [img |-> Take(teacher_data.img, tidx),
                                    img_metas |-> Take(teacher_data.img_metas, tidx),
                                    proposals |-> IF hp THEN Take(proposals, tidx)
                                                  ELSE <<>>,
                                    has_proposals |-> hp]]
    /\ UNCHANGED <<world, loader, memory_k, projector_dim, lk, Queue, wk, ld, ti, sel>>

\* lines 99-103: extract_teacher_info has returned
ExtractTeacherInfoReturn ==
    /\ al.pc = "teacher_called"
    /\ al' = [AlignIdle EXCEPT !.pc = "unsup_ctr", !.n = al.n]
    /\ UNCHANGED <<world, loader, memory_k, projector_dim, lk, Queue, wk, ld, ti, sel>>

\* lines 111-158: the data foward_unsup_ctr_train passes to ctr_loss
FowardUnsupCtrTrain ==
    /\ al.pc = "unsup_ctr"
    /\ \E oa, oc \in Perms(al.n) :
          LET anchor_data == RoleBatch("anchor", oa)
              ctr_data == RoleBatch("ctr", oc)
              tidx == Tidx(Filenames(ctr_data.img_metas), Filenames(anchor_data.img_metas))
              info_metas == Take(ctr_data.img_metas, tidx)
              ctr_bboxes == Take(ctr_data.img, tidx)
              anchor_bboxes == [i \in 1..Len(ctr_bboxes) |->
                                   TransformBox(ctr_bboxes[i], info_metas[i],
                                                anchor_data.img_metas[i])]
          IN  al' = [al EXCEPT !.pc = "ctr_called", !.src = "unsup",
                               !.anchor = [anchor_data EXCEPT !.gt_bboxes = anchor_bboxes,
                                                              !.gt_labels = anchor_bboxes],
                               !.ctr = [ctr_data EXCEPT !.gt_bboxes = ctr_bboxes,
                                                        !.gt_labels = ctr_bboxes]]
    /\ UNCHANGED <<world, loader, memory_k, projector_dim, lk, Queue, wk, ld, ti, sel>>

\* lines 104-109, 76-81: ctr_loss has returned, forward_train returns
AlignReturn ==
    /\ al.pc = "ctr_called"
    /\ al' = AlignIdle
    /\ UNCHANGED <<world, loader, memory_k, projector_dim, lk, Queue, wk, ld, ti, sel>>

NextAlign ==
    \/ AlignDispatch
    \/ SupCtrLoss
    \/ SupCtrLossReturn
    \/ FowardUnsupTrain
    \/ ExtractTeacherInfoReturn
    \/ FowardUnsupCtrTrain
    \/ AlignReturn

SpecAlign == InitForward /\ [][NextAlign]_vars

\* ------------------------------------------- the exemplar lookup, step by step
\* the answers of get_same_label_item(label): an index that is populated for
\* the label answers with an item that has it after at most MaxMiss that lack it
Answers(label, misses) ==
    {r \in Responses : misses >= MaxMiss => label \in LastView(r).gt_labels}

Lacks(x, label) == IF x.kind = "list" THEN label \notin LastView(x).gt_labels
                   ELSE label \notin x.gt_labels

\* lines 699-703
Ctr2Begin ==
    /\ lk.pc = "idle"
    /\ \E n \in 1..MaxBoxes : \E ls \in [1..n -> Labels] :
          lk' = [LookupIdle EXCEPT !.pc = "query", !.labels = ls, !.k = 1]
    /\ UNCHANGED <<world, loader, memory_k, projector_dim, al, Queue, wk, ld, ti, sel>>

\* lines 705-707: the first answer, of which the last view is kept
Ctr2Query ==
    /\ lk.pc = "query"
    /\ \E r \in Answers(lk.labels[lk.k], lk.misses) :
          lk' = [lk EXCEPT !.pc = "while", !.item = LastView(r),
                           !.misses = IF Lacks(r, lk.labels[lk.k]) THEN @ + 1 ELSE @]
    /\ UNCHANGED <<world, loader, memory_k, projector_dim, al, Queue, wk, ld, ti, sel>>

\* lines 708-709: the loop test, and the loop body, which keeps the whole answer
Ctr2While ==
    /\ lk.pc = "while"
    /\ LET c == WhileCond(lk.item, lk.labels[lk.k])
       IN  IF c = "TypeError" THEN lk' = [lk EXCEPT !.pc = "raised", !.err = "TypeError"]
           ELSE IF c = "exit" THEN lk' = [lk EXCEPT !.pc = "extract"]
           ELSE \E r \in Answers(lk.labels[lk.k], lk.misses) :
                   lk' = [lk EXCEPT !.item = r,
                                    !.misses = IF Lacks(r, lk.labels[lk.k]) THEN @ + 1
                                               ELSE @]
    /\ UNCHANGED <<world, loader, memory_k, projector_dim, al, Queue, wk, ld, ti, sel>>

\* lines 710-715: the exemplar's region of the label is projected and appended
Ctr2Extract ==
    /\ lk.pc = "extract"
    /\ lk' = [lk EXCEPT !.used = Append(@, lk.item),
                        !.pc = IF lk.k = Len(lk.labels) THEN "done" ELSE "query",
                        !.k = IF lk.k = Len(lk.labels) THEN @ ELSE @ + 1,
                        !.misses = 0]
    /\ UNCHANGED <<world, loader, memory_k, projector_dim, al, Queue, wk, ld, ti, sel>>

\* lines 716-727
Ctr2Return ==
    /\ lk.pc = "done"
    /\ lk' = LookupIdle
    /\ UNCHANGED <<world, loader, memory_k, projector_dim, al, Queue, wk, ld, ti, sel>>

NextLookup ==
    \/ Ctr2Begin
    \/ Ctr2Query
    \/ Ctr2While
    \/ Ctr2Extract
    \/ Ctr2Return

SpecLookup == InitForward /\ [][NextLookup]_vars

\* ------------------------------- one detector, built with projector_dim = 128
InitPure ==
    /\ world = 1
    /\ loader = {}
    /\ memory_k = KStep
    /\ projector_dim = EmptyFeatDim
    /\ queue_vector = [w \in 1..world |-> InitQueue(memory_k)]
    /\ queue_ptr = [w \in 1..world |-> 0]
    /\ wk = [w \in 1..world |-> IdleLocal]
    /\ al = AlignIdle
    /\ lk = LookupIdle
    /\ ld = LoadIdle
    /\ ti = TeacherIdle
    /\ sel = SelectIdle

\* ------------------------------------------------- _load_from_state_dict
\* a parameter name is a dotted path, kept as the sequence of its components
Tokens == {"backbone", "teacher", "student"}

Keys == UNION {[1..n -> Tokens] : n \in 1..MaxKeyLen}

\* word in key
Contains(key, word) == \E i \in 1..Len(key) : key[i] = word

\* role + "." + key
Prefix(role, key) == <<role>> \o key

RECURSIVE SubsetsUpTo(_, _)
SubsetsUpTo(S, n) ==
    IF n = 0 THEN {{}}
    ELSE SubsetsUpTo(S, n - 1) \cup {T \cup {x} : T \in SubsetsUpTo(S, n - 1), x \in S}

\* the checkpoints given to the loader: up to MaxKeys names, each with a tensor
StateDicts == UNION {[S -> 1..MaxVal] : S \in SubsetsUpTo(Keys, MaxKeys)}

\* dict.update(e)
Update(d, e) ==
    [k \in DOMAIN d \cup DOMAIN e |-> IF k \in DOMAIN e THEN e[k] ELSE d[k]]

\* for k in keys: d.pop(k)
Pop(d, keys) == [k \in DOMAIN d \ keys |-> d[k]]

\* line 443: any(["student" in key or "teacher" in key for key in state_dict.keys()])
HasRoleKey(d) ==
    \E k \in DOMAIN d : Contains(k, "student") \/ Contains(k, "teacher")

\* {role + "." + k: d[k] for k in keys}
Prefixed(d, keys, role) ==
    [p \in {Prefix(role, k) : k \in keys} |-> d[Tail(p)]]

\* a faulty variant of the migration: the single-model names are not removed
MigrateKeepOriginals(state_dict) ==
    IF ~HasRoleKey(state_dict)
    THEN LET keys == DOMAIN state_dict
             d1 == Update(state_dict, Prefixed(state_dict, keys, "teacher"))
         IN  Update(d1, Prefixed(d1, keys, "student"))
    ELSE state_dict

\* lines 443-448
Migrate(state_dict) ==
    IF ~HasRoleKey(state_dict)
    THEN LET keys == DOMAIN state_dict
             d1 == Update(state_dict, Prefixed(state_dict, keys, "teacher"))
             d2 == Update(d1, Prefixed(d1, keys, "student"))
         IN  Pop(d2, keys)
    ELSE state_dict

\* a checkpoint is handed to load_state_dict
LoadCheckpoint ==
    /\ ld.pc = "idle"
    /\ \E d \in StateDicts :
          ld' = [LoadIdle EXCEPT !.pc = "call", !.orig = d, !.state_dict = d]
    /\ UNCHANGED <<world, loader, memory_k, projector_dim, al, lk, Queue, wk, ti, sel>>

\* lines 433-448: the dict is migrated in place before it is passed on (line 450)
LoadFromStateDict ==
    /\ ld.pc = "call"
    /\ ld' = [ld EXCEPT !.pc = "loaded", !.loads = @ + 1,
                        !.before = ld.state_dict,
                        !.state_dict = Migrate(ld.state_dict),
                        !.once = IF ld.loads = 0 THEN Migrate(ld.state_dict) ELSE @]
    /\ UNCHANGED <<world, loader, memory_k, projector_dim, al, lk, Queue, wk, ti, sel>>

\* the dict object that was loaded is loaded a second time
LoadAgain ==
    /\ ld.pc = "loaded"
    /\ ld.loads = 1
    /\ ld' = [ld EXCEPT !.pc = "call"]
    /\ UNCHANGED <<world, loader, memory_k, projector_dim, al, lk, Queue, wk, ti, sel>>

\* lines 450-458: the return of the base class's loader
LoadReturn ==
    /\ ld.pc = "loaded"
    /\ ld' = LoadIdle
    /\ UNCHANGED <<world, loader, memory_k, projector_dim, al, lk, Queue, wk, ti, sel>>

NextLoad ==
    \/ LoadCheckpoint
    \/ LoadFromStateDict
    \/ LoadAgain
    \/ LoadReturn

SpecLoad == InitPure /\ [][NextLoad]_vars

\* --------------------------------------------------- extract_teacher_info
\* values train_cfg.pseudo_label_initial_score_thr can be configured with: a
\* float or an int score level, a list of per-class levels, a dict that
\* describes an adaptive scheme, or None
ThrConfigs ==
    {[type |-> "float", val |-> v] : v \in 0..MaxThr}
    \cup {[type |-> "int", val |-> v] : v \in {0, MaxThr}}
    \cup {[type |-> "list", val |-> v] : v \in [Labels -> 0..MaxThr]}
    \cup {[type |-> "dict", val |-> 0], [type |-> "NoneType", val |-> 0]}

\* line 378: isinstance(x, float)
IsInstanceFloat(c) == c.type = "float"

\* lines 23-25: the detector is built with its train_cfg
TeacherConfigure ==
    /\ ti.pc = "idle"
    /\ \E c \in ThrConfigs : ti' = [TeacherIdle EXCEPT !.pc = "ready", !.thr_cfg = c]
    /\ UNCHANGED <<world, loader, memory_k, projector_dim, al, lk, Queue, wk, ld, sel>>

\* lines 352-376: features, proposals and the raw detections of n images
ExtractTeacherInfo ==
    /\ ti.pc = "ready"
    /\ \E n \in 1..MaxImgs : \E hp \in BOOLEAN :
          ti' = [ti EXCEPT !.pc = "threshold", !.n = n, !.has_proposals = hp,
                           !.thr = NoThr, !.filter_calls = <<>>, !.returned = FALSE]
    /\ UNCHANGED <<world, loader, memory_k, projector_dim, al, lk, Queue, wk, ld, sel>>

\* lines 377-382
TeacherThreshold ==
    /\ ti.pc = "threshold"
    /\ ti' = IF IsInstanceFloat(ti.thr_cfg)
             THEN [ti EXCEPT !.pc = "filter", !.thr = ti.thr_cfg]
             ELSE [ti EXCEPT !.pc = "raised", !.err = "NotImplementedError"]
    /\ UNCHANGED <<world, loader, memory_k, projector_dim, al, lk, Queue, wk, ld, sel>>

\* lines 383-398: filter_invalid(..., thr=thr, ...) once per image
TeacherFilter ==
    /\ ti.pc = "filter"
    /\ ti' = [ti EXCEPT !.pc = "returned", !.returned = TRUE,
                        !.filter_calls = [i \in 1..ti.n |-> ti.thr]]
    /\ UNCHANGED <<world, loader, memory_k, projector_dim, al, lk, Queue, wk, ld, sel>>

\* line 400 and after: teacher_info is back with the caller
TeacherReturn ==
    /\ ti.pc = "returned"
    /\ ti' = [ti EXCEPT !.pc = "ready"]
    /\ UNCHANGED <<world, loader, memory_k, projector_dim, al, lk, Queue, wk, ld, sel>>

NextTeacher ==
    \/ TeacherConfigure
    \/ ExtractTeacherInfo
    \/ TeacherThreshold
    \/ TeacherFilter
    \/ TeacherReturn

SpecTeacher == InitPure /\ [][NextTeacher]_vars

\* ----------------------------------------- ctr_loss_1: the matching of positives
\* a positive region: the image it was sampled on (from 0) and the index of
\* the ground-truth box it is assigned to (pos_assigned_gt_inds, from 0)
Region(img, gt) == [img |-> img, gt |-> gt]

\* lines 617-632: the sampling results of n valid images; batch is the number
\* of boxes sampled, positive and negative, on the first anchor image (line 626)
Ctr1Begin ==
    /\ sel.pc = "idle"
    /\ \E n \in 1..MaxImgs : \E batch \in 0..(MaxPos + MaxNeg) :
          sel' = [SelectIdle EXCEPT !.pc = "loop", !.n = n, !.batch = batch]
    /\ UNCHANGED <<world, loader, memory_k, projector_dim, al, lk, Queue, wk, ld, ti>>

\* lines 634-642, the iteration for image i: ia and ic are the
\* pos_assigned_gt_inds of the anchor view and of the counterpart view
Ctr1LoopStep(l, ia, ic) ==
    IF Len(ia) = 0 THEN [l EXCEPT !.pc = "raised", !.err = "AssertionError", !.line = 635]
    ELSE IF Len(ic) = 0 THEN [l EXCEPT !.pc = "raised", !.err = "AssertionError", !.line = 636]
    ELSE [l EXCEPT
            !.pos_gt_map_anchor = @ \o [k \in 1..Len(ia) |-> ia[k] + l.i * l.batch],
            !.pos_gt_map_ctr = @ \o [k \in 1..Len(ic) |-> ic[k] + l.i * l.batch],
            !.anchor = @ \o [k \in 1..Len(ia) |-> Region(l.i, ia[k])],
            !.ctr = @ \o [k \in 1..Len(ic) |-> Region(l.i, ic[k])],
            !.i = @ + 1,
            !.pc = IF l.i + 1 = l.n THEN "select" ELSE "loop",
            !.j = 1]

Ctr1Loop ==
    /\ sel.pc = "loop"
    /\ \E g \in 1..MaxSelGt : \E pa, pc \in 0..MaxPos :
       \E ia \in [1..pa -> 0..(g - 1)] : \E ic \in [1..pc -> 0..(g - 1)] :
          /\ sel.i = 0 => (pa <= sel.batch /\ sel.batch - pa <= MaxNeg)
          /\ sel' = Ctr1LoopStep(sel, ia, ic)
    /\ UNCHANGED <<world, loader, memory_k, projector_dim, al, lk, Queue, wk, ld, ti>>

\* line 650: the counterpart positives whose map value equals that of anchor positive j
PosInds(l, j) ==
    {m \in 1..Len(l.pos_gt_map_ctr) : l.pos_gt_map_ctr[m] = l.pos_gt_map_anchor[j]}

\* lines 649-653, the iteration for anchor positive j: torch.randint picks one
\* of the matching counterpart positives and raises when there is none
Ctr1Select ==
    /\ sel.pc = "select"
    /\ IF PosInds(sel, sel.j) = {}
       THEN sel' = [sel EXCEPT !.pc = "raised", !.err = "RuntimeError", !.line = 652]
       ELSE \E rand_index \in PosInds(sel, sel.j) :
               sel' = [sel EXCEPT !.selected = Append(@, sel.ctr[rand_index]),
                                  !.j = @ + 1,
                                  !.pc = IF sel.j = Len(sel.pos_gt_map_anchor)
                                         THEN "selected" ELSE "select"]
    /\ UNCHANGED <<world, loader, memory_k, projector_dim, al, lk, Queue, wk, ld, ti>>

\* lines 655-679: the selected regions are pooled, projected and enqueued
Ctr1Return ==
    /\ sel.pc = "selected"
    /\ sel' = SelectIdle
    /\ UNCHANGED <<world, loader, memory_k, projector_dim, al, lk, Queue, wk, ld, ti>>

NextSelect ==
    \/ Ctr1Begin
    \/ Ctr1Loop
    \/ Ctr1Select
    \/ Ctr1Return

SpecSelect == InitPure /\ [][NextSelect]_vars

\* ===================================================================== claims

\* C1: after construction and after any sequence of enqueues the queue of
\* every worker has exactly memory_k rows, every row has unit L2 norm, and
\* the cursor is in [0, memory_k).
C1_QueueInvariant ==
    \A w \in Workers :
        /\ Len(queue_vector[w]) = memory_k
        /\ \A k \in 1..Len(queue_vector[w]) : queue_vector[w][k].n = 1
        /\ queue_ptr[w] \in 0..(memory_k - 1)

\* an enqueue has just wrapped: its last rows are at the head of the buffer
C1_Witness ==
    \E w \in Workers :
        /\ wk[w].pc = "enq_done"
        /\ 0 < queue_ptr[w]
        /\ queue_ptr[w] < Len(wk[w].features.rows)
        /\ queue_vector[w][queue_ptr[w]] = wk[w].features.rows[Len(wk[w].features.rows)]

\* C2: an enqueue of B rows (1 <= B <= K) at cursor c with c + B > K writes
\* rows 0..K-c-1 to positions c..K-1 and the other c+B-K rows to positions
\* 0..c+B-K-1, in order; with c + B <= K the rows go to c..c+B-1; the cursor
\* becomes (c + B) mod K.
C2_WrapWrite ==
    [][\A w \in Workers :
          (wk[w].pc = "enqueue" /\ wk'[w].pc = "enq_done") =>
             LET f == wk'[w].features.rows
                 B == Len(f)
                 c == queue_ptr[w]
                 K == memory_k
                 q == queue_vector'[w]
             IN  (1 <= B /\ B <= K) =>
                    /\ queue_ptr'[w] = (c + B) % K
                    /\ IF c + B > K
                       THEN /\ \A i \in 0..(K - c - 1) : q[c + i + 1] = f[i + 1]
                            /\ \A i \in 0..(c + B - K - 1) : q[i + 1] = f[K - c + i + 1]
                       ELSE \A i \in 0..(B - 1) : q[c + i + 1] = f[i + 1]]_vars

\* the spec's case: 5 rows enqueued at cursor K-3 leave the cursor at 2
C2_Witness ==
    \E w \in Workers :
        /\ wk[w].pc = "enq_done"
        /\ Len(wk[w].features.rows) = 5
        /\ memory_k >= 5
        /\ queue_ptr[w] = 2
        /\ queue_vector[w][memory_k] = wk[w].features.rows[3]
        /\ queue_vector[w][1] = wk[w].features.rows[4]

\* C3: every evaluation of ctr_loss that returns has called
\* _dequeue_and_enqueue exactly once, and ctr_loss_2 is entered with that one
\* call made and adds none.
C3_EnqueueOncePerCtrLoss ==
    \A w \in Workers :
        /\ wk[w].pc \in {"ctr_ret", "ctr_loss_2"} => wk[w].calls = 1
        /\ wk[w].calls <= 1

\* ctr_loss has returned through ctr_loss_1 and ctr_loss_2
C3_Witness ==
    \E w \in Workers :
        wk[w].pc = "ctr_ret" /\ wk[w].ctr1 = "value" /\ wk[w].ctr2 = "value"

\* C4: no worker waits at a gather barrier that another worker, having
\* returned from forward_train, will not join in this step; workers that
\* finish the step have issued the same number of all_gather calls.
C4_GathersJoined ==
    \A u, v \in Workers :
        /\ wk[u].pc \in {"gather_sizes", "gather_feats"} => wk[v].pc # "done"
        /\ (wk[u].pc = "done" /\ wk[v].pc = "done") => wk[u].gathers = wk[v].gathers

\* C7: forward_train raises no KeyError for any set of role groups present.
C7_AbsentGroupsSkipped ==
    \A w \in Workers : wk[w].err # "KeyError"

\* C8: a ctr_loss evaluation whose anchor batch has no ground truth does not
\* raise: its one enqueue of the empty feature set returns.
C8_ZeroGtNeverRaises ==
    \A w \in Workers : wk[w].ret = "ctr_loss" => wk[w].pc # "raised"

\* C9: an image with ground truth but no positive proposals on either view
\* does not make ctr_loss_1 raise.
C9_NoPositivesTolerated ==
    \A w \in Workers : ~(wk[w].pc = "raised" /\ wk[w].line \in {635, 636})

\* C5: the teacher image, meta and proposals passed to extract_teacher_info
\* at index i are those of the file of student image i.
C5_TeacherAlignedByFilename ==
    al.pc = "teacher_called" =>
        /\ Len(al.teacher_call.img) = Len(al.snames)
        /\ \A i \in 1..Len(al.snames) :
              /\ al.teacher_call.img[i] = Elem("teacher", al.snames[i])
              /\ al.teacher_call.img_metas[i] = Elem("teacher", al.snames[i])
              /\ al.teacher_call.has_proposals =>
                     al.teacher_call.proposals[i] = Elem("teacher", al.snames[i])

\* teacher order [b, a, c], student order [a, b, c]: student 0 pairs with teacher 1
C5_Witness ==
    /\ al.pc = "teacher_called"
    /\ al.tnames = <<2, 1, 3>>
    /\ al.snames = <<1, 2, 3>>
    /\ al.tidx[1] = 2
    /\ al.teacher_call.has_proposals

\* C6: every call of ctr_loss receives, at every index, an anchor image, a
\* counterpart image, their metas and both box and label lists of one file.
C6_CtrLossAligned ==
    al.src # "none" =>
        \A i \in 1..Len(al.anchor.img) :
            \A x \in {al.anchor.img_metas[i], al.anchor.gt_bboxes[i], al.anchor.gt_labels[i],
                      al.ctr.img[i], al.ctr.img_metas[i], al.ctr.gt_bboxes[i],
                      al.ctr.gt_labels[i]} :
                x.file = al.anchor.img[i].file

\* C10: the exemplar lookup does not raise, and the item it goes on to use
\* has the queried label.
C10_LookupProceeds ==
    /\ lk.pc # "raised"
    /\ lk.pc = "extract" => lk.labels[lk.k] \in lk.item.gt_labels

\* C11: every feature set the contrastive losses pass to _dequeue_and_enqueue
\* has dimensionality projector_dim, and no call whose features have another
\* dimensionality returns normally, whatever its row count: it ends in the
\* assertion of line 502.
C11_DimMismatchFatal ==
    \A w \in Workers :
        /\ wk[w].pc = "gather_sizes" => wk[w].features.dim = projector_dim
        /\ wk[w].pc = "enq_done" => wk[w].features.dim = projector_dim

\* C12: a state dict in which no name contains a role is replaced by one whose
\* names are exactly the teacher- and student-prefixed original names, each
\* with the original's tensor, no original name remaining; a state dict with a
\* role-prefixed name is left as it is; migrating twice gives what migrating
\* once gives.
C12_MigrationDuplicates ==
    ld.pc = "loaded" =>
        /\ ~HasRoleKey(ld.before) =>
               /\ DOMAIN ld.state_dict =
                      {Prefix("teacher", k) : k \in DOMAIN ld.before}
                      \cup {Prefix("student", k) : k \in DOMAIN ld.before}
               /\ \A k \in DOMAIN ld.before :
                      /\ ld.state_dict[Prefix("teacher", k)] = ld.before[k]
                      /\ ld.state_dict[Prefix("student", k)] = ld.before[k]
                      /\ k \notin DOMAIN ld.state_dict
        /\ HasRoleKey(ld.before) => ld.state_dict = ld.before
        /\ ld.loads >= 2 => ld.state_dict = ld.once

\* a single-model checkpoint of two names has been migrated, then loaded again
C12_Witness ==
    /\ ld.pc = "loaded"
    /\ ld.loads = 2
    /\ Cardinality(DOMAIN ld.orig) = 2
    /\ ~HasRoleKey(ld.orig)
    /\ Cardinality(DOMAIN ld.state_dict) = 4

\* C13: extract_teacher_info raises only for a threshold that is not a static
\* scalar, and for every static scalar threshold, float or int, it goes on to
\* filter every image with that threshold.
C13_StaticScalarAccepted ==
    /\ ti.pc = "raised" => ti.thr_cfg.type \notin {"float", "int"}
    /\ ti.pc = "returned" =>
           /\ ti.thr_cfg.type \in {"float", "int"}
           /\ \A i \in 1..ti.n : ti.filter_calls[i].val = ti.thr_cfg.val

\* the true local rows of the workers, in worker order, for the reported sizes
TrueRows(sizes) ==
    Flatten([u \in 1..Len(sizes) |-> [k \in 1..sizes[u] |-> Row(u, k, 1)]])

\* C14: for every assignment of local row counts, concat_all_gather completes
\* on every worker and returns on each the local rows of worker 1, then of
\* worker 2, ..., with no padding row.
C14_GatherMerges ==
    \A w \in Workers :
        /\ ~(wk[w].pc = "raised" /\ wk[w].line = 483)
        /\ (wk[w].pc = "enq_done" \/ (wk[w].pc = "raised" /\ wk[w].line \in {502, 510}))
               => wk[w].features.rows = TrueRows(wk[w].sizes)

\* C16: an enqueue of a merged batch of B rows (0 <= B <= K) at cursor c
\* changes only the positions c, c+1, ..., c+B-1 modulo K; with B = 0 neither
\* a row nor the cursor changes; no other step changes the queue.
C16_EnqueueFrame ==
    [][\A w \in Workers :
          IF wk[w].pc = "enqueue" /\ wk'[w].pc = "enq_done"
          THEN LET B == Len(wk'[w].features.rows)
                   c == queue_ptr[w]
                   K == memory_k
                   written == {(c + j) % K : j \in 0..(B - 1)}
               IN  B <= K =>
                      /\ \A k \in 0..(K - 1) \ written :
                             queue_vector'[w][k + 1] = queue_vector[w][k + 1]
                      /\ Len(queue_vector'[w]) = K
                      /\ B = 0 => /\ queue_vector'[w] = queue_vector[w]
                                  /\ queue_ptr'[w] = queue_ptr[w]
          ELSE wk[w].pc # "enqueue" =>
                  /\ queue_vector'[w] = queue_vector[w]
                  /\ queue_ptr'[w] = queue_ptr[w]]_vars

\* two rows have been written across the end of the buffer; the third row of
\* an earlier batch is still where that batch put it
C16_Witness ==
    \E w \in Workers :
        /\ wk[w].pc = "enq_done"
        /\ Len(wk[w].features.rows) = 2
        /\ queue_ptr[w] = 1
        /\ queue_vector[w][1] = Row(w, 2, 1)
        /\ queue_vector[w][3] = Row(w, 3, 1)

\* C17: whenever all workers of a group have completed the same enqueues and
\* none is inside one, all hold the same cursor and the same rows, however
\* many rows each contributed.
C17_QueuesAgree ==
    AllAt("idle") =>
        \A u, v \in Workers :
            /\ queue_ptr[u] = queue_ptr[v]
            /\ queue_vector[u] = queue_vector[v]

\* worker 1 contributed no row and worker 2 one: that row is in both queues
C17_Witness ==
    /\ AllAt("idle")
    /\ world >= 2
    /\ \A w \in Workers :
           /\ queue_ptr[w] = 1
           /\ queue_vector[w][1] = Row(2, 1, 1)

\* C15: the counterpart region selected for an anchor positive is a
\* counterpart positive of the same image, assigned to the same ground-truth
\* box.
C15_SameImageSameGt ==
    \A j \in 1..Len(sel.selected) :
        /\ sel.selected[j].img = sel.anchor[j].img
        /\ sel.selected[j].gt = sel.anchor[j].gt

====
